---- MODULE Spec2Model ----
(***************************************************************************)
(* Model of lib/dma-multi-spi.cc (spixels): the DMAMultiSPI engine.        *)
(*                                                                         *)
(* The Timeline is gpio_shadow_, an array of GPIOData slots {set, clr};    *)
(* the hardware-visible slot buffer is gpio_dma_.  Slot arrays are         *)
(* functions over 0..n-1 so that slot indices are the indices of the C++   *)
(* arrays; a NULL pointer is the array with the empty domain.  Masks are   *)
(* the uint32_t values of the source; the pins of the model are below 31,  *)
(* so that (1 << pin) is a non-negative 32-bit value and no mask wraps.    *)
(***************************************************************************)
EXTENDS Integers, FiniteSets, Sequences, TLC

\* ------------------------------------------------------------------ bounds
\* Largest byte capacity a caller passes to RegisterDataGPIO.
MaxBytes == 2
\* Largest number of (pin, byte index) cells that SetBufferedByte encodes.
MaxEncoded == 2
\* Largest byte capacity registered where SendBuffers runs statement by
\* statement.
DrvMaxBytes == 1

\* ------------------------------------------------------------- input sets
\* GPIO numbers passed by the callers (18 and 23 are the pins of the
\* end-to-end scenario of the library's documentation).
GPIOPins == {18, 23, 24}
\* Pins passed to RegisterDataGPIO: a data pin and the clock pin itself.
RegisterPins == {18, 23}
\* Clock pins passed to the constructor.
ClockPins == {18}
\* Byte values passed to SetBufferedByte: 0x80 and 0x7F, so that every bit
\* takes both levels and the bit order shows.
ByteValues == {128, 127}
\* Byte positions passed to SetBufferedByte: all valid ones and one past.
Positions == 0..MaxBytes
\* Capacities passed to RegisterDataGPIO.
Capacities == 0..MaxBytes
\* Capacities and the data pin where SendBuffers runs statement by statement.
DrvCapacities == 0..DrvMaxBytes
DrvDataPin == 23
\* Values the uninitialized member gpio_buffer_size_ may hold after
\* construction (bytes): the constructor does not set it.
UninitSizes == {0, 16}

\* -------------------------------------------------------------- constants
\* sizeof(GPIOData): four uint32_t.
SizeofGPIOData == 16
\* sizeof(struct dma_cb) of rpi-dma.h: eight uint32_t.
SizeofDmaCb == 32
\* (2<<15) / sizeof(GPIOData)
kMaxOpsPerBlock == 4096
\* PHYSICAL_GPIO_BUS + GPIO_SET_OFFSET = 0x7E200000 + 0x1C
GpioSetBusAddr == 2116026396
\* PHYSICAL_GPIO_BUS + GPIO_CLR_OFFSET = 0x7E200000 + 0x28
GpioClrBusAddr == 2116026408
\* offsetof(GPIOData, set) and offsetof(GPIOData, clr)
OffsetofSet == 0
OffsetofClr == 12
\* Bus address of the block UncachedMemBlock_alloc returns.
AllocBusBase == 1073741824

\* A byte that no SetBufferedByte call has encoded.
NoByte == 0 - 1

VARIABLES
    clock_gpio_,        \* const int clock_gpio_
    serial_byte_size_,  \* size_t serial_byte_size_
    gpio_shadow_,       \* GPIOData *gpio_shadow_ : the Timeline
    gpio_buffer_size_,  \* size_t gpio_buffer_size_ (bytes)
    gpio_dma_,          \* GPIOData *gpio_dma_ : hardware-visible slots
    control_blocks_,    \* the dma_cb chain at the start of alloced_.mem
    outputs,            \* pins reserved as outputs in ft::GPIO gpio_
    fatal,              \* "none", or why the process has terminated
    encoded,            \* history: last byte SetBufferedByte wrote per cell
    regrown,            \* history: the Timeline grew while holding bytes
    finish_runs,        \* history: number of calls of FinishRegistration
    ret,                \* what the last call of the public interface returned
    last_grew,          \* history: the last call grew the Timeline
    pc,                 \* the statement of SendBuffers the caller is at; "idle"
                        \* between calls, "deleted" once the engine is destroyed
    cs,                 \* dma_channel_->cs : flags of the control/status register
    cblock,             \* dma_channel_->cblock : control block address register
    exit_cause,         \* history: why the poll loop was last left, until the
                        \* channel is armed again or another function returns
    teardown            \* history: the teardown steps done since then

\* The members of the engine and the histories about them.
engine_vars == <<clock_gpio_, serial_byte_size_, gpio_shadow_, gpio_buffer_size_,
                 gpio_dma_, control_blocks_, outputs, fatal, encoded, regrown,
                 finish_runs, ret, last_grew>>

\* The DMA channel registers, the position in SendBuffers and its histories.
driver_vars == <<pc, cs, cblock, exit_cause, teardown>>

vars == <<clock_gpio_, serial_byte_size_, gpio_shadow_, gpio_buffer_size_,
          gpio_dma_, control_blocks_, outputs, fatal, encoded, regrown,
          finish_runs, ret, last_grew, pc, cs, cblock, exit_cause, teardown>>

\* ------------------------------------------------------------ bit masks
Pow2(n) == 2^n

\* (m >> p) & 1
Bit(m, p) == (m \div Pow2(p)) % 2

\* Mutant of SetBit: "=" written for "|=".
SetBitAssign(m, p) == Pow2(p)

\* m |= (1 << p)
SetBit(m, p) == IF Bit(m, p) = 1 THEN m ELSE m + Pow2(p)

\* Mutant of ClearBit: the clearing statement left out.
ClearBitSkipped(m, p) == m

\* m &= ~(1 << p)
ClearBit(m, p) == IF Bit(m, p) = 1 THEN m - Pow2(p) ELSE m

\* ------------------------------------------------------------ slot arrays
ZeroSlot == [set |-> 0, clr |-> 0]

\* Content of heap memory that nothing has written yet (the tail realloc
\* adds): any value; the model uses a slot with every model pin in both
\* masks, which no operation of the engine writes.
AllPinsMask == Pow2(18) + Pow2(23) + Pow2(24)
JunkSlot == [set |-> AllPinsMask, clr |-> AllPinsMask]

NullBuf == [i \in {} |-> ZeroSlot]

IsNull(buf) == DOMAIN buf = {}

NumSlots(buf) == Cardinality(DOMAIN buf)

\* bytes_to_gpio_ops(): two operations per bit, one trailing clock-low.
bytes_to_gpio_ops(bytes) == bytes * 8 * 2 + 1

\* ------------------------------------------------- RegisterDataGPIO helpers
\* Mutant of PrevGpioEnd: the whole buffer is re-initialised on growth.
PrevGpioEndZero(old_bytes) == 0

\* prev_gpio_end: index of the previous trailing clock-low operation.
PrevGpioEnd(old_bytes) == bytes_to_gpio_ops(old_bytes) - 1

\* realloc(gpio_shadow_, n * sizeof(GPIOData)): the common prefix is kept,
\* the rest is memory nothing has written.
Realloc(buf, n) ==
    [i \in 0..(n - 1) |-> IF i \in DOMAIN buf THEN buf[i] ELSE JunkSlot]

\* bzero(buf + from, (to - from) * sizeof(GPIOData))
Bzero(buf, from, to) ==
    [i \in DOMAIN buf |-> IF i >= from /\ i < to THEN ZeroSlot ELSE buf[i]]

\* Mutant of ClockSlot: the parity test inverted.
ClockSlotSwapped(slot, i, clk) ==
    IF i % 2 = 1 THEN [slot EXCEPT !.clr = Pow2(clk)]
                 ELSE [slot EXCEPT !.set = Pow2(clk)]

\* Even: data, clock low; Uneven: clock pos edge.
ClockSlot(slot, i, clk) ==
    IF i % 2 = 0 THEN [slot EXCEPT !.clr = Pow2(clk)]
                 ELSE [slot EXCEPT !.set = Pow2(clk)]

\* for (int i = from; i < to; ++i) ...
ClockPattern(buf, from, to, clk) ==
    [i \in DOMAIN buf |->
        IF i >= from /\ i < to THEN ClockSlot(buf[i], i, clk) ELSE buf[i]]

\* The body of "if (requested_bytes > serial_byte_size_)": the new Timeline.
GrowShadow(buf, old_bytes, requested_bytes, clk) ==
    LET prev_gpio_end   == PrevGpioEnd(old_bytes)
        gpio_operations == bytes_to_gpio_ops(requested_bytes)
        grown  == Realloc(buf, gpio_operations)
        zeroed == Bzero(grown, prev_gpio_end, gpio_operations)
    IN  ClockPattern(zeroed, prev_gpio_end, gpio_operations, clk)

\* Mutant of RegisterAfterSend: the check left out.
RegisterNeverRejected == FALSE

\* if (gpio_dma_ != NULL) { fprintf(...); assert(0); }
RegisterAfterSend == ~IsNull(gpio_dma_)

\* gpio_.AddOutput(gpio): the pin is an output afterwards iff it succeeded.
AddOutput(outs, gpio, success) == IF success THEN outs \cup {gpio} ELSE outs

\* Mutant of NeedsGrowth: the Timeline is resized to every other capacity.
NeedsGrowthOnChange(requested_bytes, size) == requested_bytes # size

\* if (requested_bytes > serial_byte_size_)
NeedsGrowth(requested_bytes, size) == requested_bytes > size

\* A bool as the caller of the public interface receives it.
BoolRet(b) == IF b THEN "true" ELSE "false"

\* Mutant of RegisterReturn: the result of AddOutput is dropped.
RegisterReturnTrue(success) == TRUE

\* return gpio_.AddOutput(gpio);
RegisterReturn(success) == success

\* ------------------------------------------------- SetBufferedByte helpers
\* Mutant of PosInRange: "<=" written for "<".
PosInRangeOffByOne(pos, size) == pos <= size

\* assert(pos < serial_byte_size_)
PosInRange(pos, size) == pos < size

\* data & bit, for bit = 0x80 >> k
DataBit(data, k) == (data \div Pow2(7 - k)) % 2

\* The loop body on one slot.
EncodeSlot(slot, data_gpio, bit) ==
    IF bit = 1
    THEN [set |-> SetBit(slot.set, data_gpio),
          clr |-> ClearBit(slot.clr, data_gpio)]
    ELSE [set |-> ClearBit(slot.set, data_gpio),
          clr |-> SetBit(slot.clr, data_gpio)]

\* Mutant of BufferPos: buffer_pos advanced by one slot per bit.
BufferPosByOne(pos, k) == 2 * 8 * pos + k

\* buffer_pos after k iterations: gpio_shadow_ + 2 * 8 * pos, += 2 each.
BufferPos(pos, k) == 2 * 8 * pos + 2 * k

\* *buffer_pos = ...: a write through a pointer outside the array does not
\* change the array.
WriteSlot(buf, at, data_gpio, bit) ==
    IF at \in DOMAIN buf
    THEN [buf EXCEPT ![at] = EncodeSlot(buf[at], data_gpio, bit)]
    ELSE buf

\* for (uint8_t bit = 0x80; bit; bit >>= 1, buffer_pos += 2) ...
RECURSIVE EncodeLoop(_, _, _, _, _)
EncodeLoop(buf, data_gpio, pos, data, k) ==
    IF k = 8 THEN buf
    ELSE EncodeLoop(WriteSlot(buf, BufferPos(pos, k), data_gpio, DataBit(data, k)),
                    data_gpio, pos, data, k + 1)

SetByteBuf(buf, data_gpio, pos, data) == EncodeLoop(buf, data_gpio, pos, data, 0)

\* ---------------------------------------------- FinishRegistration helpers
\* (gpio_operations + kMaxOpsPerBlock - 1) / kMaxOpsPerBlock
ControlBlocks(gpio_operations) ==
    (gpio_operations + kMaxOpsPerBlock - 1) \div kMaxOpsPerBlock

\* UncachedMemBlock_to_physical(&alloced_, mem + offset)
ToPhysical(offset) == AllocBusBase + offset

\* Byte offsets in alloced_.mem of control block i and of slot s.
CbOffset(i) == i * SizeofDmaCb
SlotOffset(control_blocks, s) == control_blocks * SizeofDmaCb + s * SizeofGPIOData

\* Mutant of DStride: the distance of the two registers, not a row.
DStrideRegisterDistance == 0 - 12

\* DMA_CB_STRIDE_D_STRIDE(-16)
DStride == 0 - 16

\* The loop over the control blocks; acc is the chain built so far.
RECURSIVE ChainLoop(_, _, _, _, _)
ChainLoop(i, control_blocks, start_gpio, remaining, acc) ==
    IF i = control_blocks
    THEN [acc EXCEPT ![control_blocks - 1].next = 0]
    ELSE LET n == IF remaining > kMaxOpsPerBlock THEN kMaxOpsPerBlock ELSE remaining
             linked == IF i > 0
                       THEN [acc EXCEPT ![i - 1].next = ToPhysical(CbOffset(i))]
                       ELSE acc
             cb == [info     |-> {"SRC_INC", "DEST_INC", "NO_WIDE_BURSTS", "TDMODE"},
                    src      |-> ToPhysical(SlotOffset(control_blocks, start_gpio)),
                    dst      |-> GpioSetBusAddr,
                    ylength  |-> n,
                    xlength  |-> SizeofGPIOData,
                    d_stride |-> DStride,
                    s_stride |-> 0,
                    next     |-> -1]
         IN  ChainLoop(i + 1, control_blocks, start_gpio + n, remaining - n,
                       [j \in 0..i |-> IF j = i THEN cb ELSE linked[j]])

\* The descriptor chain FinishRegistration writes for a capacity.
BuildChain(bytes) ==
    LET gpio_operations == bytes_to_gpio_ops(bytes)
    IN  ChainLoop(0, ControlBlocks(gpio_operations), 0, gpio_operations, NullBuf)

\* What the memory UncachedMemBlock_alloc hands out may hold before the
\* engine writes it: nothing says it is cleared, so any value; the model
\* draws it from a zeroed slot and a slot nothing of the engine writes.
AllocContents == {ZeroSlot, JunkSlot}

\* gpio_dma_ right after UncachedMemBlock_alloc: gpio_operations slots
\* behind the control blocks, holding what the allocator left there.
FreshDma(bytes, fill) == [i \in 0..(bytes_to_gpio_ops(bytes) - 1) |-> fill]

\* ----------------------------------------------------- SendBuffers helpers
\* Mutant of NeedsFinish: FinishRegistration called by every SendBuffers.
NeedsFinishAlways == TRUE

\* if (!gpio_dma_) FinishRegistration();
NeedsFinish == IsNull(gpio_dma_)

\* assert(alloced_.mem == NULL): alloced_.mem holds the control blocks.
AllocedMemNull == IsNull(control_blocks_)

\* memcpy reads nbytes from src: past the end of src (any byte of a NULL
\* src) it reads unmapped memory and the process is killed.
MemcpyFaults(src, nbytes) == nbytes > NumSlots(src) * SizeofGPIOData

\* memcpy(dst, src, nbytes) when it does not fault.
Memcpy(dst, src, nbytes) ==
    [i \in DOMAIN dst |->
        IF i < nbytes \div SizeofGPIOData THEN src[i] ELSE dst[i]]

\* ------------------------------------------------- the DMA channel registers
\* Flags of dma_channel_->cs that a store keeps as written.
CsStoredFlags == {"ACTIVE", "DISDEBUG", "PRIORITY7", "PANIC_PRIORITY7"}

\* What cs holds after the CPU stores the flags `written` into it while it
\* holds `old`: RESET resets the channel; END is cleared by writing 1 to it
\* and kept otherwise; ERROR is read-only; ABORT is a command and reads 0.
CsStore(old, written) ==
    IF "RESET" \in written
    THEN {}
    ELSE (written \cap CsStoredFlags) \cup ((old \cap {"END"}) \ written)
                                      \cup (old \cap {"ERROR"})

\* What cblock holds after a store into cs: RESET clears it.
CblockAfterCsStore(old, written) == IF "RESET" \in written THEN 0 ELSE old

\* Mutant of ArmEndValue: the END bit is not written.
ArmEndNotWritten(old) == old \ {"END"}

\* dma_channel_->cs |= DMA_CS_END : the value stored.
ArmEndValue(old) == old \cup {"END"}

\* UncachedMemBlock_to_physical(&alloced_, start_block_); start_block_ is the
\* first control block of alloced_.mem.
StartBlockPhysical == ToPhysical(CbOffset(0))

\* DMA_CS_PRIORITY(7) | DMA_CS_PANIC_PRIORITY(7) | DMA_CS_DISDEBUG
StartAttributes == {"PRIORITY7", "PANIC_PRIORITY7", "DISDEBUG"}

\* Mutant of PollContinues: the ERROR flag does not end the loop.
PollIgnoresError(flags) == "ACTIVE" \in flags

\* (cs & DMA_CS_ACTIVE) && !(cs & DMA_CS_ERROR)
PollContinues(flags) == "ACTIVE" \in flags /\ "ERROR" \notin flags

\* Mutant of NextStmt: no abort is issued after the poll loop.
NextStmtNoAbort(stmt) ==
    CASE stmt = "arm_end"      -> "arm_cblock"
      [] stmt = "arm_cblock"   -> "start_attr"
      [] stmt = "start_attr"   -> "start_active"
      [] stmt = "start_active" -> "poll"
      [] stmt = "poll"         -> "settle"
      [] stmt = "abort"        -> "settle"
      [] stmt = "settle"       -> "clear_active"
      [] stmt = "clear_active" -> "reset"
      [] stmt = "reset"        -> "idle"

\* The statement of SendBuffers that follows stmt; "idle" is the caller.
NextStmt(stmt) ==
    CASE stmt = "arm_end"      -> "arm_cblock"
      [] stmt = "arm_cblock"   -> "start_attr"
      [] stmt = "start_attr"   -> "start_active"
      [] stmt = "start_active" -> "poll"
      [] stmt = "poll"         -> "abort"
      [] stmt = "abort"        -> "settle"
      [] stmt = "settle"       -> "clear_active"
      [] stmt = "clear_active" -> "reset"
      [] stmt = "reset"        -> "idle"

\* Values cs may hold when the engine is constructed: the channel is idle,
\* with or without the END flag of an earlier transfer.
StaleCs == {{}, {"END"}}

\* ------------------------------------------------------------------ state
Cells == GPIOPins \X Positions

NumEncoded == Cardinality({c \in Cells : encoded[c] # NoByte})

\* The engine after the constructor.
InitEngine ==
    /\ clock_gpio_ \in ClockPins
    /\ serial_byte_size_ = 0
    /\ gpio_shadow_ = NullBuf
    /\ gpio_buffer_size_ \in UninitSizes
    /\ gpio_dma_ = NullBuf
    /\ control_blocks_ = NullBuf
    /\ outputs = {clock_gpio_}
    /\ fatal = "none"
    /\ encoded = [c \in Cells |-> NoByte]
    /\ regrown = FALSE
    /\ finish_runs = 0
    /\ ret = "none"
    /\ last_grew = FALSE
    /\ pc = "idle"
    /\ cblock = 0
    /\ exit_cause = "none"
    /\ teardown = <<>>

Init ==
    /\ InitEngine
    /\ cs \in StaleCs

\* bool RegisterDataGPIO(int gpio, size_t requested_bytes); success is the
\* result of gpio_.AddOutput(gpio).
RegisterDataGPIO(gpio, requested_bytes, success) ==
    /\ fatal = "none"
    /\ pc = "idle"
    /\ UNCHANGED <<clock_gpio_, gpio_dma_, control_blocks_, encoded, finish_runs>>
    /\ UNCHANGED <<pc, cs, cblock>>
    /\ IF RegisterAfterSend
       THEN /\ fatal' = "register_after_send"
            /\ UNCHANGED <<serial_byte_size_, gpio_shadow_, gpio_buffer_size_,
                           outputs, regrown, ret, last_grew, exit_cause, teardown>>
       ELSE /\ UNCHANGED fatal
            /\ exit_cause' = "none"
            /\ teardown' = << >>
            /\ ret' = BoolRet(RegisterReturn(success))
            /\ last_grew' = NeedsGrowth(requested_bytes, serial_byte_size_)
            /\ outputs' = AddOutput(outputs, gpio, success)
            /\ IF NeedsGrowth(requested_bytes, serial_byte_size_)
               THEN /\ serial_byte_size_' = requested_bytes
                    /\ gpio_buffer_size_' =
                          bytes_to_gpio_ops(requested_bytes) * SizeofGPIOData
                    /\ regrown' = (regrown \/ NumEncoded > 0)
                    /\ gpio_shadow_' = GrowShadow(gpio_shadow_, serial_byte_size_,
                                                  requested_bytes, clock_gpio_)
               ELSE UNCHANGED <<serial_byte_size_, gpio_buffer_size_, gpio_shadow_,
                                regrown>>

\* void SetBufferedByte(int data_gpio, size_t pos, uint8_t data)
SetBufferedByte(data_gpio, pos, data) ==
    /\ fatal = "none"
    /\ pc = "idle"
    /\ UNCHANGED <<clock_gpio_, serial_byte_size_, gpio_buffer_size_, gpio_dma_,
                   control_blocks_, outputs, regrown, finish_runs>>
    /\ UNCHANGED <<pc, cs, cblock>>
    /\ IF ~PosInRange(pos, serial_byte_size_)
       THEN /\ fatal' = "byte_index_out_of_range"
            /\ UNCHANGED <<gpio_shadow_, encoded, ret, last_grew, exit_cause,
                           teardown>>
       ELSE /\ encoded[<<data_gpio, pos>>] # NoByte \/ NumEncoded < MaxEncoded
            /\ UNCHANGED fatal
            /\ exit_cause' = "none"
            /\ teardown' = << >>
            /\ ret' = "void"
            /\ last_grew' = FALSE
            /\ encoded' = [encoded EXCEPT ![<<data_gpio, pos>>] = data]
            /\ gpio_shadow_' = SetByteBuf(gpio_shadow_, data_gpio, pos, data)

\* The first two statements of SendBuffers:
\*   if (!gpio_dma_) FinishRegistration();
\*   memcpy(gpio_dma_, gpio_shadow_, gpio_buffer_size_);
SendCopy ==
    IF NeedsFinish /\ ~AllocedMemNull
    THEN /\ fatal' = "finalized_twice"
         /\ finish_runs' = finish_runs + 1
         /\ UNCHANGED <<gpio_dma_, control_blocks_>>
    ELSE \E fill \in AllocContents :
         LET dma == IF NeedsFinish THEN FreshDma(serial_byte_size_, fill)
                                   ELSE gpio_dma_
             cbs == IF NeedsFinish THEN BuildChain(serial_byte_size_)
                                   ELSE control_blocks_
         IN  /\ control_blocks_' = cbs
             /\ finish_runs' = IF NeedsFinish THEN finish_runs + 1 ELSE finish_runs
             /\ IF MemcpyFaults(gpio_shadow_, gpio_buffer_size_)
                THEN /\ gpio_dma_' = dma
                     /\ fatal' = "segfault"
                ELSE /\ gpio_dma_' = Memcpy(dma, gpio_shadow_, gpio_buffer_size_)
                     /\ UNCHANGED fatal

\* ------------------------------------------- SendBuffers statement by statement
\* The call of SendBuffers up to the arming of the channel (lines 201-202).
SendEnter ==
    /\ fatal = "none"
    /\ pc = "idle"
    /\ UNCHANGED <<clock_gpio_, serial_byte_size_, gpio_shadow_, gpio_buffer_size_,
                   outputs, encoded, regrown, ret, last_grew, cs, cblock,
                   exit_cause, teardown>>
    /\ SendCopy
    /\ pc' = IF fatal' = "none" THEN "arm_end" ELSE "idle"

\* dma_channel_->cs |= DMA_CS_END;
ArmEnd ==
    /\ pc = "arm_end"
    /\ pc' = NextStmt("arm_end")
    /\ cs' = CsStore(cs, ArmEndValue(cs))
    /\ exit_cause' = "none"
    /\ teardown' = << >>
    /\ UNCHANGED cblock
    /\ UNCHANGED engine_vars

\* dma_channel_->cblock = UncachedMemBlock_to_physical(&alloced_, start_block_);
ArmCblock ==
    /\ pc = "arm_cblock"
    /\ pc' = NextStmt("arm_cblock")
    /\ cblock' = StartBlockPhysical
    /\ UNCHANGED <<cs, exit_cause, teardown>>
    /\ UNCHANGED engine_vars

\* dma_channel_->cs = DMA_CS_PRIORITY(7) | DMA_CS_PANIC_PRIORITY(7) | DMA_CS_DISDEBUG;
StartAttr ==
    /\ pc = "start_attr"
    /\ pc' = NextStmt("start_attr")
    /\ cs' = CsStore(cs, StartAttributes)
    /\ UNCHANGED <<cblock, exit_cause, teardown>>
    /\ UNCHANGED engine_vars

\* dma_channel_->cs |= DMA_CS_ACTIVE;
StartActive ==
    /\ pc = "start_active"
    /\ pc' = NextStmt("start_active")
    /\ cs' = CsStore(cs, cs \cup {"ACTIVE"})
    /\ UNCHANGED <<cblock, exit_cause, teardown>>
    /\ UNCHANGED engine_vars

\* while ((cs & DMA_CS_ACTIVE) && !(cs & DMA_CS_ERROR)) usleep(10);
\* one evaluation of the condition.
Poll ==
    /\ pc = "poll"
    /\ UNCHANGED <<cs, cblock>>
    /\ UNCHANGED engine_vars
    /\ IF PollContinues(cs)
       THEN UNCHANGED <<pc, exit_cause, teardown>>
       ELSE /\ pc' = NextStmt("poll")
            /\ exit_cause' = IF "ERROR" \in cs THEN "errored" ELSE "completed"
            /\ teardown' = <<>>

\* dma_channel_->cs |= DMA_CS_ABORT;
Abort ==
    /\ pc = "abort"
    /\ pc' = NextStmt("abort")
    /\ cs' = CsStore(cs, cs \cup {"ABORT"})
    /\ cblock' = CblockAfterCsStore(cblock, cs \cup {"ABORT"})
    /\ teardown' = Append(teardown, "abort")
    /\ UNCHANGED exit_cause
    /\ UNCHANGED engine_vars

\* usleep(100);
Settle ==
    /\ pc = "settle"
    /\ pc' = NextStmt("settle")
    /\ teardown' = Append(teardown, "settle")
    /\ UNCHANGED <<cs, cblock, exit_cause>>
    /\ UNCHANGED engine_vars

\* dma_channel_->cs &= ~DMA_CS_ACTIVE;
ClearActive ==
    /\ pc = "clear_active"
    /\ pc' = NextStmt("clear_active")
    /\ cs' = CsStore(cs, cs \ {"ACTIVE"})
    /\ cblock' = CblockAfterCsStore(cblock, cs \ {"ACTIVE"})
    /\ teardown' = Append(teardown, "clear_active")
    /\ UNCHANGED exit_cause
    /\ UNCHANGED engine_vars

\* dma_channel_->cs |= DMA_CS_RESET; and the return to the caller.
Reset ==
    /\ pc = "reset"
    /\ pc' = NextStmt("reset")
    /\ cs' = CsStore(cs, cs \cup {"RESET"})
    /\ cblock' = CblockAfterCsStore(cblock, cs \cup {"RESET"})
    /\ teardown' = Append(teardown, "reset")
    /\ ret' = "void"
    /\ last_grew' = FALSE
    /\ UNCHANGED exit_cause
    /\ UNCHANGED <<clock_gpio_, serial_byte_size_, gpio_shadow_, gpio_buffer_size_,
                   gpio_dma_, control_blocks_, outputs, fatal, encoded, regrown,
                   finish_runs>>

\* The DMA engine reaches the end of the chain: ACTIVE drops, END rises.
HwComplete ==
    /\ "ACTIVE" \in cs
    /\ "ERROR" \notin cs
    /\ cs' = (cs \ {"ACTIVE"}) \cup {"END"}
    /\ UNCHANGED <<pc, cblock, exit_cause, teardown>>
    /\ UNCHANGED engine_vars

\* The DMA engine detects an error: ERROR rises, the transfer is paused with
\* ACTIVE still set.
HwError ==
    /\ "ACTIVE" \in cs
    /\ "ERROR" \notin cs
    /\ cs' = cs \cup {"ERROR"}
    /\ UNCHANGED <<pc, cblock, exit_cause, teardown>>
    /\ UNCHANGED engine_vars

\* The statements of SendBuffers after the copy: the calling thread runs on.
DriverStep ==
    \/ ArmEnd
    \/ ArmCblock
    \/ StartAttr
    \/ StartActive
    \/ Poll
    \/ Abort
    \/ Settle
    \/ ClearActive
    \/ Reset

\* The DMA engine ends an active transfer, one way or the other.
HwRespond ==
    \/ HwComplete
    \/ HwError

\* void SendBuffers(): the call with the copy, then its statements one by
\* one; the DMA engine takes its steps in between.
SendBuffers ==
    \/ SendEnter
    \/ DriverStep

\* ~DMAMultiSPI(): UncachedMemBlock_free(&alloced_); free(gpio_shadow_);
\* The chain, the hardware-visible slots and the Timeline are released, and
\* with the Timeline the cells that held the encoded bytes; no function of
\* the engine can be called afterwards.
Destroy ==
    /\ fatal = "none"
    /\ pc = "idle"
    /\ pc' = "deleted"
    /\ control_blocks_' = NullBuf
    /\ gpio_dma_' = NullBuf
    /\ gpio_shadow_' = NullBuf
    /\ encoded' = [c \in Cells |-> NoByte]
    /\ ret' = "void"
    /\ last_grew' = FALSE
    /\ exit_cause' = "none"
    /\ teardown' = << >>
    /\ UNCHANGED <<clock_gpio_, serial_byte_size_, gpio_buffer_size_, outputs,
                   fatal, regrown, finish_runs, cs, cblock>>

Next ==
    \/ \E gpio \in RegisterPins, b \in Capacities, ok \in BOOLEAN :
          RegisterDataGPIO(gpio, b, ok)
    \/ \E gpio \in GPIOPins, pos \in Positions, d \in ByteValues :
          SetBufferedByte(gpio, pos, d)
    \/ SendBuffers
    \/ HwRespond
    \/ Destroy

Spec == Init /\ [][Next]_vars

NextDrv ==
    \/ \E b \in DrvCapacities, ok \in BOOLEAN : RegisterDataGPIO(DrvDataPin, b, ok)
    \/ \E d \in ByteValues : SetBufferedByte(DrvDataPin, 0, d)
    \/ SendBuffers
    \/ HwRespond
    \/ Destroy

\* The calling thread is never suspended for ever, and the DMA engine ends
\* every transfer it was started on.
SpecDrv ==
    /\ Init
    /\ [][NextDrv]_vars
    /\ WF_vars(DriverStep)
    /\ WF_vars(HwRespond)

\* ================================================================ claims
\* What a slot does to a pin when the hardware plays it.
PinHigh(slot, pin)   == Bit(slot.set, pin) = 1 /\ Bit(slot.clr, pin) = 0
PinLow(slot, pin)    == Bit(slot.set, pin) = 0 /\ Bit(slot.clr, pin) = 1
PinAbsent(slot, pin) == Bit(slot.set, pin) = 0 /\ Bit(slot.clr, pin) = 0

\* Index of the data slot and of the clock-edge slot of bit k of byte pos.
DataSlot(pos, k) == 16 * pos + 2 * k
EdgeSlot(pos, k) == 16 * pos + 2 * k + 1

\* The level bit k of data asks for, most significant bit first.
Level(data, k) == (data \div (2 ^ (7 - k))) % 2

\* The byte a pin's bits in the eight data slots of byte pos encode, most
\* significant bit first; NoByte unless all eight slots drive the pin.
Decode(buf, pin, pos) ==
    IF \A k \in 0..7 :
          /\ DataSlot(pos, k) \in DOMAIN buf
          /\ PinHigh(buf[DataSlot(pos, k)], pin) \/ PinLow(buf[DataSlot(pos, k)], pin)
    THEN LET b(k) == IF PinHigh(buf[DataSlot(pos, k)], pin) THEN 1 ELSE 0
         IN  128 * b(0) + 64 * b(1) + 32 * b(2) + 16 * b(3)
               + 8 * b(4) + 4 * b(5) + 2 * b(6) + b(7)
    ELSE NoByte

\* The slot the clock pre-pattern puts at index i, with no data bit.
CleanClockSlot(i, clk) ==
    IF i % 2 = 0 THEN [set |-> 0, clr |-> 2 ^ clk] ELSE [set |-> 2 ^ clk, clr |-> 0]

\* The step encodes a new value d at cell (p, pos): a set_byte(p, pos, d)
\* call that changes the state.
Encodes(p, pos, d) ==
    /\ encoded'[<<p, pos>>] = d
    /\ encoded[<<p, pos>>] # d
    /\ SetBufferedByte(p, pos, d)

\* What every step of a SetBufferedByte call has, and every step of one that
\* encodes a new value; what every step of a RegisterDataGPIO call has.
SetByteStep ==
    /\ pc = "idle"
    /\ pc' = "idle"
    /\ fatal' # "register_after_send"
    /\ ret' \in {"void", ret}
EncodeStep ==
    /\ SetByteStep
    /\ encoded' # encoded
RegisterStep ==
    /\ pc = "idle"
    /\ pc' = "idle"
    /\ fatal' # "byte_index_out_of_range"
    /\ ret' \in {"true", "false"} \/ fatal' # fatal

\* A data pin has been encoded, and the clock pin never was.
SomeDataEncoded ==
    \E c \in Cells : c[1] # clock_gpio_ /\ encoded[c] # NoByte
ClockNeverEncoded ==
    \A pos \in Positions : encoded[<<clock_gpio_, pos>>] = NoByte

\* C1: after a successful register_channel the Timeline holds exactly
\* 16*b + 1 slots, b the largest capacity registered so far, and the slot
\* at index 16*b is the trailing clock-low slot.
C1_SlotCountFormula ==
    (outputs # {clock_gpio_} /\ pc # "deleted") =>
        /\ NumSlots(gpio_shadow_) = 16 * serial_byte_size_ + 1
        /\ gpio_shadow_[16 * serial_byte_size_]
              = CleanClockSlot(16 * serial_byte_size_, clock_gpio_)

\* C2: a set_byte(p2, i, d) leaves the bit of every other pin p1 unchanged
\* in the set-mask and the clear-mask of every Timeline slot, so p1's bits
\* at index i decode as before.
C2_NonInterference ==
    [][EncodeStep =>
       \A p2 \in GPIOPins, pos \in Positions, d \in ByteValues :
          Encodes(p2, pos, d) =>
             \A p1 \in GPIOPins \ {p2} :
                /\ \A s \in DOMAIN gpio_shadow_ :
                      \/ gpio_shadow_'[s] = gpio_shadow_[s]
                      \/ /\ Bit(gpio_shadow_'[s].set, p1) = Bit(gpio_shadow_[s].set, p1)
                         /\ Bit(gpio_shadow_'[s].clr, p1) = Bit(gpio_shadow_[s].clr, p1)
                /\ Decode(gpio_shadow_', p1, pos) = Decode(gpio_shadow_, p1, pos)
      ]_vars

\* C2 witness: two distinct pins hold different bytes at the same index.
C2_Witness ==
    \E p1 \in GPIOPins, p2 \in GPIOPins, i \in Positions :
       /\ p1 # p2
       /\ encoded[<<p1, i>>] # NoByte /\ encoded[<<p2, i>>] # NoByte
       /\ encoded[<<p1, i>>] # encoded[<<p2, i>>]
       /\ Decode(gpio_shadow_, p1, i) = encoded[<<p1, i>>]
       /\ Decode(gpio_shadow_, p2, i) = encoded[<<p2, i>>]

\* C3: when register_channel grows the Timeline, every slot of the old
\* Timeline keeps its content, every byte encoded below the old capacity
\* decodes as before, and every added slot is the clock pre-pattern slot of
\* its parity with no data-pin bit.
C3_GrowthPreservation ==
    [][RegisterStep =>
       \A gpio \in RegisterPins, b \in Capacities, ok \in BOOLEAN :
          (b > serial_byte_size_ /\ serial_byte_size_' = b
             /\ RegisterDataGPIO(gpio, b, ok)) =>
             /\ NumSlots(gpio_shadow_') = 16 * b + 1
             /\ \A s \in DOMAIN gpio_shadow_ : gpio_shadow_'[s] = gpio_shadow_[s]
             /\ \A c \in Cells :
                   c[2] < serial_byte_size_ =>
                      Decode(gpio_shadow_', c[1], c[2])
                         = Decode(gpio_shadow_, c[1], c[2])
             /\ \A s \in DOMAIN gpio_shadow_' \ DOMAIN gpio_shadow_ :
                   gpio_shadow_'[s] = CleanClockSlot(s, clock_gpio_)
      ]_vars

\* C3 witness: the Timeline grew while it held an encoded byte, which still
\* decodes to the value written.
C3_Witness ==
    /\ regrown
    /\ serial_byte_size_ >= 2
    /\ \E c \in Cells :
          /\ c[1] # clock_gpio_
          /\ encoded[c] # NoByte
          /\ Decode(gpio_shadow_, c[1], c[2]) = encoded[c]

\* C4 (as claimed): for every bit of an encoded byte both the data slot and
\* the clock-edge slot carry the pin's level in their masks.
C4_BothSlotsWritten ==
    \A c \in Cells :
       (c[1] # clock_gpio_ /\ encoded[c] # NoByte) =>
          \A k \in 0..7 :
             LET data == gpio_shadow_[DataSlot(c[2], k)]
                 edge == gpio_shadow_[EdgeSlot(c[2], k)]
             IN  IF Level(encoded[c], k) = 1
                 THEN PinHigh(data, c[1]) /\ PinHigh(edge, c[1])
                 ELSE PinLow(data, c[1]) /\ PinLow(edge, c[1])

\* C4 (amended): set_byte writes the pin's level, most significant bit
\* first, into the data slot of each bit only (set-mask bit set and
\* clear-mask bit cleared for 1, the opposite for 0); the clock-edge slot of
\* each bit is left as it was, and after the call it carries no bit of the
\* pin in either mask when the pin is not the clock pin, and the clock pin
\* in its set-mask only when it is.
C4_DataSlotOnly ==
    [][EncodeStep =>
       \A p \in GPIOPins, pos \in Positions, d \in ByteValues :
          Encodes(p, pos, d) =>
             \A k \in 0..7 :
                /\ IF Level(d, k) = 1
                   THEN PinHigh(gpio_shadow_'[DataSlot(pos, k)], p)
                   ELSE PinLow(gpio_shadow_'[DataSlot(pos, k)], p)
                /\ gpio_shadow_'[EdgeSlot(pos, k)] = gpio_shadow_[EdgeSlot(pos, k)]
                /\ IF p = clock_gpio_
                   THEN PinHigh(gpio_shadow_'[EdgeSlot(pos, k)], p)
                   ELSE PinAbsent(gpio_shadow_'[EdgeSlot(pos, k)], p)
      ]_vars

\* C4 witness: a data pin holds an encoded byte whose clock-edge slots carry
\* no bit of that pin.
C4_Witness ==
    \E c \in Cells :
       /\ c[1] # clock_gpio_
       /\ encoded[c] # NoByte
       /\ Decode(gpio_shadow_, c[1], c[2]) = encoded[c]
       /\ \A k \in 0..7 : PinAbsent(gpio_shadow_[EdgeSlot(c[2], k)], c[1])

\* C5: a set_byte(pin, i, v2) step ends in the same Timeline whatever value
\* v1 was encoded at (pin, i) just before it, repeating it changes nothing,
\* and the cell decodes to v2.
C5_IdempotentReencode ==
    [][EncodeStep =>
       \A p \in GPIOPins, pos \in Positions, v2 \in ByteValues :
          Encodes(p, pos, v2) =>
             /\ \A v1 \in ByteValues :
                   gpio_shadow_' =
                      SetByteBuf(SetByteBuf(gpio_shadow_, p, pos, v1), p, pos, v2)
             /\ SetByteBuf(gpio_shadow_', p, pos, v2) = gpio_shadow_'
             /\ Decode(gpio_shadow_', p, pos) = v2
      ]_vars

\* C5 witness: a cell was sent with one value and holds another one now.
C5_Witness ==
    \E c \in Cells :
       /\ ~IsNull(gpio_dma_)
       /\ Decode(gpio_dma_, c[1], c[2]) \in ByteValues
       /\ encoded[c] \in ByteValues
       /\ encoded[c] # Decode(gpio_dma_, c[1], c[2])
       /\ Decode(gpio_shadow_, c[1], c[2]) = encoded[c]

\* The clock pre-pattern: the clock pin is cleared and not set in every
\* even slot, set and not cleared in every odd slot.
ClockPatternHolds(buf, clk) ==
    \A s \in DOMAIN buf :
       IF s % 2 = 0 THEN PinLow(buf[s], clk) ELSE PinHigh(buf[s], clk)

\* C6: when a send() returns on an engine whose registered data pins were
\* encoded and whose clock pin was not, the hardware-visible buffer decodes
\* to the encoded bytes, the clock pin is cleared in the first and set in
\* the second slot of every pair, and cleared in the final slot.
C6_RoundTrip ==
    [][(pc = "reset" /\ pc' = "idle" /\ fatal' = "none"
          /\ outputs # {clock_gpio_} /\ ClockNeverEncoded) =>
          /\ \A c \in Cells :
                (c[1] # clock_gpio_ /\ encoded[c] # NoByte) =>
                   Decode(gpio_dma_', c[1], c[2]) = encoded[c]
          /\ ClockPatternHolds(gpio_dma_', clock_gpio_)
          /\ PinLow(gpio_dma_'[NumSlots(gpio_dma_') - 1], clock_gpio_)
      ]_vars

\* C7: once the Descriptor Builder has run, every register_channel call is
\* fatal and changes neither the capacity, the Timeline, the hardware
\* buffer, the descriptor chain nor the reserved pins.
C7_RegisterAfterSendRejected ==
    [][(RegisterStep /\ ~IsNull(gpio_dma_)) =>
       \A gpio \in RegisterPins, b \in Capacities, ok \in BOOLEAN :
          RegisterDataGPIO(gpio, b, ok) =>
             /\ fatal' = "register_after_send"
             /\ UNCHANGED <<serial_byte_size_, gpio_buffer_size_, gpio_shadow_,
                            gpio_dma_, control_blocks_, outputs>>
      ]_vars

\* C7 witness: a register_channel call after a send has ended the process.
C7_Witness ==
    /\ fatal = "register_after_send"
    /\ ~IsNull(gpio_dma_)
    /\ ~IsNull(control_blocks_)

\* C8: set_byte is fatal exactly when byte_index is not below the engine's
\* capacity, and then leaves the Timeline alone; below the capacity it is
\* not fatal and writes only slots 16*byte_index .. 16*byte_index + 15,
\* all of them inside the Timeline.
C8_SetByteRange ==
    [][SetByteStep =>
       \A p \in GPIOPins, pos \in Positions, d \in ByteValues :
          /\ (pos >= serial_byte_size_ /\ SetBufferedByte(p, pos, d)) =>
                /\ fatal' = "byte_index_out_of_range"
                /\ gpio_shadow_' = gpio_shadow_
          /\ Encodes(p, pos, d) =>
                /\ pos < serial_byte_size_
                /\ fatal' = "none"
                /\ DOMAIN gpio_shadow_' = DOMAIN gpio_shadow_
                /\ 16 * pos + 15 < NumSlots(gpio_shadow_)
                /\ \A s \in DOMAIN gpio_shadow_ :
                      (s < 16 * pos \/ s > 16 * pos + 15) =>
                         gpio_shadow_'[s] = gpio_shadow_[s]
      ]_vars

\* C8 witness: after a byte was encoded in range, on a pin that was never
\* registered, a call with an index at or past the capacity was fatal.
C8_Witness ==
    /\ fatal = "byte_index_out_of_range"
    /\ serial_byte_size_ >= 1
    /\ \E c \in Cells :
          /\ c[1] \notin outputs
          /\ encoded[c] # NoByte
          /\ c[2] < serial_byte_size_

\* C9 (as claimed): the clock pre-pattern holds in every reachable state,
\* whatever pins set_byte was called with.
C9_ClockPatternAnyPin == ClockPatternHolds(gpio_shadow_, clock_gpio_)

\* C9 (amended): as long as set_byte was never called with the clock pin
\* as its pin, every even Timeline slot has the clock pin in its clear-mask
\* and not in its set-mask, and every odd slot the opposite.
C9_ClockPatternDataPins ==
    ClockNeverEncoded => ClockPatternHolds(gpio_shadow_, clock_gpio_)

\* C9 witness: a grown Timeline holding data-pin bytes and no clock-pin
\* byte, with the clock pre-pattern in place.
C9_Witness ==
    /\ regrown /\ SomeDataEncoded /\ ClockNeverEncoded
    /\ NumSlots(gpio_shadow_) >= 33
    /\ ClockPatternHolds(gpio_shadow_, clock_gpio_)

\* The slots of a buffer, and the pins a 32-bit mask of the model can hold.
SlotsOf(buf) == {buf[s] : s \in DOMAIN buf}
MaskPins == 0..30

\* C10: no pin is in both the set-mask and the clear-mask of a slot, in
\* the Timeline and in the hardware-visible slot buffer.  The slots of the
\* hardware-visible buffer that no send() has written hold what the
\* allocator left in them.
C10_MasksDisjoint ==
    \A slot \in SlotsOf(gpio_shadow_) \cup SlotsOf(gpio_dma_) :
       \A pin \in MaskPins :
          ~(Bit(slot.set, pin) = 1 /\ Bit(slot.clr, pin) = 1)

\* ---------------------------------------------------- the transfer driver
\* The teardown of SendBuffers, in the order of its statements.
TeardownSteps == <<"abort", "settle", "clear_active", "reset">>

\* Number of teardown steps behind the caller when it is at stmt.
TeardownDone(stmt) ==
    CASE stmt = "abort"        -> 0
      [] stmt = "settle"       -> 1
      [] stmt = "clear_active" -> 2
      [] stmt = "reset"        -> 3
      [] OTHER                 -> 4

\* The poll loop is left in this step.
PollExit == pc = "poll" /\ pc' # "poll"

\* SendBuffers returns to its caller in this step.
SendReturns == pc = "reset" /\ pc' = "idle"

\* C11: whenever the poll loop of send() is left, on completion or on the
\* error flag alike, the driver goes on to abort, settle wait, clear of the
\* active bit and reset, in that order and with nothing in between, and
\* send() returns normally with the channel idle: the active bit clear and
\* the registers the same whichever exit was taken.
C11_UnconditionalTeardown ==
    [][/\ PollExit =>
             /\ pc' = "abort"
             /\ exit_cause' \in {"completed", "errored"}
             /\ teardown' = << >>
       /\ pc' \in {"abort", "settle", "clear_active", "reset"} =>
             teardown' = SubSeq(TeardownSteps, 1, TeardownDone(pc'))
       /\ SendReturns =>
             /\ teardown' = TeardownSteps
             /\ fatal' = "none"
             /\ ret' = "void"
             /\ "ACTIVE" \notin cs'
             /\ cs' = {}
             /\ cblock' = 0]_vars

\* send() has returned after a poll loop that the error flag ended.
C11_Witness ==
    /\ pc = "idle"
    /\ exit_cause = "errored"
    /\ teardown = TeardownSteps
    /\ ret = "void"

\* C12: send() blocks until the transfer ends: the poll loop is left only
\* when the active bit is clear or the error bit is set (there is no other
\* way out, no timeout), and when the hardware does clear the active bit or
\* set the error bit, send() returns.
C12_SendTermination ==
    /\ [][PollExit => ("ACTIVE" \notin cs \/ "ERROR" \in cs)]_vars
    /\ [][SendReturns => exit_cause \in {"completed", "errored"}]_vars
    /\ (pc = "poll") ~> (pc = "idle" /\ ret = "void")

\* send() has returned after the hardware completed the transfer.
C12_Witness ==
    /\ pc = "idle"
    /\ exit_cause = "completed"
    /\ ret = "void"
    /\ finish_runs = 1

\* The driver sets the active bit in this step.
Activation == "ACTIVE" \in cs' /\ "ACTIVE" \notin cs

\* C15: in every send() the active bit is set only by the start statement,
\* and when it is set the whole Timeline has been copied into the
\* hardware-visible slots, the end-of-transfer flag is clear, the control
\* block register holds the physical address of the head of the chain (not
\* the unprogrammed 0), and the priority, panic-priority and
\* disable-debug-pause attributes are in cs.
C15_ArmStartOrdering ==
    [][Activation =>
          /\ pc = "start_active"
          /\ "END" \notin cs
          /\ cblock # 0
          /\ cblock = AllocBusBase
          /\ ~IsNull(control_blocks_)
          /\ {"PRIORITY7", "PANIC_PRIORITY7", "DISDEBUG"} \subseteq cs
          /\ \A i \in DOMAIN gpio_shadow_ :
                i \in DOMAIN gpio_dma_ /\ gpio_dma_[i] = gpio_shadow_[i]]_vars

\* A transfer of a Timeline that holds an encoded byte is running.
C15_Witness ==
    /\ pc = "poll"
    /\ "ACTIVE" \in cs
    /\ NumEncoded > 0
    /\ NumSlots(gpio_shadow_) > 1
    /\ cblock = AllocBusBase

\* ------------------------------------------------------ the descriptor chain
\* ceil(slots / max)
CeilDiv(slots, max) == (slots + max - 1) \div max

RECURSIVE SumYLength(_, _)
\* Sum of the slot counts of the first k descriptors of a chain.
SumYLength(cbs, k) == IF k = 0 THEN 0 ELSE cbs[k - 1].ylength + SumYLength(cbs, k - 1)

\* The chain cbs is the chain of the claim for a Timeline of `slots` slots.
ChainShape(cbs, slots) ==
    LET count == NumSlots(cbs)
    IN  /\ count = CeilDiv(slots, kMaxOpsPerBlock)
        /\ \A j \in DOMAIN cbs :
              /\ cbs[j].ylength >= 1
              /\ cbs[j].ylength <= kMaxOpsPerBlock
              /\ cbs[j].src = ToPhysical(SlotOffset(count, j * kMaxOpsPerBlock))
              /\ j * kMaxOpsPerBlock = SumYLength(cbs, j)
              /\ cbs[j].next = IF j = count - 1 THEN 0
                               ELSE ToPhysical(CbOffset(j + 1))
        /\ SumYLength(cbs, count) = slots

\* C13: once FinishRegistration has run on a Timeline of S slots, the chain
\* has ceil(S / 4096) descriptors; descriptor j starts at slot j*4096 and
\* covers between 1 and 4096 slots; the slices follow one another without
\* gap or overlap and cover S slots in all; every descriptor links to the
\* next one and the last link is 0.
C13_ChainShape ==
    ~IsNull(control_blocks_) => ChainShape(control_blocks_, NumSlots(gpio_shadow_))

\* --------------------------------------------- playing the chain (2-D mode)
\* Destination address at the start of row y of a descriptor: every row
\* advances the destination by its length (DEST_INC), and the stride is
\* added at the end of the row.
RowDst(cb, y) == cb.dst + y * (cb.xlength + cb.d_stride)

\* Index in the slot memory of the slot that row y of a descriptor reads.
RowSlot(cbs, cb, y) ==
    ((cb.src - ToPhysical(SlotOffset(NumSlots(cbs), 0)))
        + y * (cb.xlength + cb.s_stride)) \div SizeofGPIOData

\* The register writes of one row: the words of the slot that hold the
\* set-mask and the clear-mask, at their offsets from the row's destination.
RowWrites(slot, row_dst) ==
    << [addr |-> row_dst + OffsetofSet, val |-> slot.set],
       [addr |-> row_dst + OffsetofClr, val |-> slot.clr] >>

\* Index of the descriptor a link points to; -1 ends the chain.
LinkedCb(link) == IF link = 0 THEN 0 - 1 ELSE (link - ToPhysical(0)) \div SizeofDmaCb

\* The register writes of one descriptor: its rows one after the other.
CbWrites(cbs, dma, cb) ==
    [k \in 1..(2 * cb.ylength) |->
        RowWrites(dma[RowSlot(cbs, cb, (k - 1) \div 2)],
                  RowDst(cb, (k - 1) \div 2))[2 - (k % 2)]]

RECURSIVE Play(_, _, _)
\* The register writes of the chain from descriptor j on, link after link.
Play(cbs, dma, j) ==
    IF j \notin DOMAIN cbs
    THEN << >>
    ELSE CbWrites(cbs, dma, cbs[j]) \o Play(cbs, dma, LinkedCb(cbs[j].next))

\* Set-mask to the pin-set register, clear-mask to the pin-clear register,
\* slot after slot.
Landing(dma) ==
    [k \in 1..(2 * NumSlots(dma)) |->
        IF k % 2 = 1
        THEN [addr |-> GpioSetBusAddr, val |-> dma[(k - 1) \div 2].set]
        ELSE [addr |-> GpioClrBusAddr, val |-> dma[(k - 1) \div 2].clr]]

\* Every descriptor has the pin-set register as destination and one slot
\* as row, the chain played from its head writes every slot's masks to the
\* two registers in Timeline order, and every row starts at the pin-set
\* register.
LandsOnRegisters(cbs, dma) ==
    /\ \A j \in DOMAIN cbs :
          /\ cbs[j].dst = GpioSetBusAddr
          /\ cbs[j].xlength = SizeofGPIOData
          /\ "TDMODE" \in cbs[j].info
          /\ \A y \in 0..(cbs[j].ylength - 1) : RowDst(cbs[j], y) = GpioSetBusAddr
    /\ Play(cbs, dma, 0) = Landing(dma)

\* C14 as stated: the chain lands every slot on the two registers, and the
\* destination stride is the negative byte offset from the pin-set register
\* to the pin-clear register.
C14_StrideIsRegisterOffset ==
    ~IsNull(control_blocks_) =>
        /\ "ACTIVE" \in cs => LandsOnRegisters(control_blocks_, gpio_dma_)
        /\ \A j \in DOMAIN control_blocks_ :
              control_blocks_[j].d_stride = 0 - (GpioClrBusAddr - GpioSetBusAddr)

\* C14 amended: whenever the channel is active, the chain it plays lands
\* every slot's set-mask on the pin-set register and its clear-mask on the
\* pin-clear register, in Timeline order, every row starting at the pin-set
\* register; in every chain the destination
\* stride is the negative of the row length (the slot size), and the
\* pin-clear register lies behind the pin-set register by the offset of the
\* clear-mask in the slot.
C14_StrideIsRowLength ==
    ~IsNull(control_blocks_) =>
        /\ "ACTIVE" \in cs => LandsOnRegisters(control_blocks_, gpio_dma_)
        /\ \A j \in DOMAIN control_blocks_ :
              control_blocks_[j].d_stride = 0 - control_blocks_[j].xlength
        /\ GpioClrBusAddr - GpioSetBusAddr = OffsetofClr - OffsetofSet

\* The channel plays a chain over a hardware-visible buffer of at least two
\* bytes that holds an encoded byte of a data pin.
C14_Witness ==
    /\ ~IsNull(control_blocks_)
    /\ "ACTIVE" \in cs
    /\ NumSlots(gpio_dma_) >= 33
    /\ fatal = "none"
    /\ \E c \in Cells : c[1] # clock_gpio_ /\ Decode(gpio_dma_, c[1], c[2]) \in ByteValues

\* ------------------------------------------------------- finalize and sizes
\* C16: FinishRegistration is called once over any sequence of calls, by
\* the first send(): it has been called exactly when the hardware-visible
\* buffer exists, its assertion never fails, and a send() on a finalized
\* engine leaves the chain and the extent of the hardware-visible buffer as
\* they are, writing slot content only.
C16_FinalizeOnce ==
    [][/\ finish_runs' <= 1
       /\ fatal' # "finalized_twice"
       /\ pc' # "deleted" =>
             /\ (finish_runs' = 1) <=> ~IsNull(gpio_dma_')
             /\ (finish_runs' = 1) <=> ~IsNull(control_blocks_')
       /\ (~IsNull(gpio_dma_) /\ pc' # "deleted") =>
             /\ finish_runs' = finish_runs
             /\ control_blocks_' = control_blocks_
             /\ DOMAIN gpio_dma_' = DOMAIN gpio_dma_]_vars

\* A second send() is under way on an engine finalized by an earlier one:
\* the poll loop was left before, the copy of this send() is done and the
\* hardware-visible buffer holds the encoded byte.
C16_Witness ==
    /\ pc = "arm_end"
    /\ exit_cause # "none"
    /\ finish_runs = 1
    /\ fatal = "none"
    /\ Decode(gpio_dma_, DrvDataPin, 0) \in ByteValues

\* C17: on every send() the number of bytes copied is that of the slots
\* the hardware-visible buffer and the chain were sized for, which is the
\* number of slots the Timeline holds, and the copy does not fault.
C17_SizeAgreement ==
    ~IsNull(control_blocks_) =>
        /\ fatal # "segfault"
        /\ gpio_buffer_size_ = NumSlots(gpio_dma_) * SizeofGPIOData
        /\ NumSlots(gpio_dma_) = NumSlots(gpio_shadow_)
        /\ SumYLength(control_blocks_, NumSlots(control_blocks_)) = NumSlots(gpio_shadow_)

\* ------------------------------------------------------ growth of the Timeline
\* The larger of two capacities.
MaxOf(a, b) == IF a > b THEN a ELSE b

\* C18: the capacity and the slot count of the Timeline never decrease; a
\* RegisterDataGPIO call with a capacity not above the current one leaves
\* the Timeline, slot count and slots, as it is; once the first send() has
\* finalized the engine the slot count does not change.
C18_MonotonicTimeline ==
    [][/\ serial_byte_size_' >= serial_byte_size_
       /\ pc' # "deleted" =>
             /\ NumSlots(gpio_shadow_') >= NumSlots(gpio_shadow_)
             /\ ~IsNull(gpio_dma_) =>
                   NumSlots(gpio_shadow_') = NumSlots(gpio_shadow_)
       /\ RegisterStep =>
          \A gpio \in RegisterPins, b \in Capacities, ok \in BOOLEAN :
             (/\ b <= serial_byte_size_
              /\ RegisterDataGPIO(gpio, b, ok))
             => /\ gpio_shadow_' = gpio_shadow_
                /\ serial_byte_size_' = serial_byte_size_]_vars

\* The last call was a RegisterDataGPIO that did not grow a Timeline which
\* holds encoded bytes.
C18_Witness ==
    /\ ret \in {"true", "false"}
    /\ ~last_grew
    /\ serial_byte_size_ >= 1
    /\ NumEncoded > 0
    /\ IsNull(gpio_dma_)

\* C19: before the first send(), RegisterDataGPIO returns the result of
\* AddOutput, and whatever that result is the capacity afterwards is the
\* larger of the capacity before and the requested one, with a Timeline of
\* that many bytes.
C19_GrowthSurvivesFailure ==
    [][(RegisterStep /\ IsNull(gpio_dma_)) =>
       \A gpio \in RegisterPins, b \in Capacities, ok \in BOOLEAN :
          RegisterDataGPIO(gpio, b, ok)
          => /\ ret' = BoolRet(ok)
             /\ serial_byte_size_' = MaxOf(serial_byte_size_, b)
             /\ last_grew' = (b > serial_byte_size_)
             /\ serial_byte_size_' > 0 =>
                   NumSlots(gpio_shadow_') = bytes_to_gpio_ops(serial_byte_size_')
             /\ ~ok => outputs' = outputs]_vars

\* The last call was a RegisterDataGPIO whose pin reservation failed and
\* which grew the Timeline.
C19_Witness ==
    /\ ret = "false"
    /\ last_grew
    /\ serial_byte_size_ >= 1
    /\ NumSlots(gpio_shadow_) = bytes_to_gpio_ops(serial_byte_size_)
    /\ IsNull(gpio_dma_)

====
